---- MODULE Spec2Model ----
(***************************************************************************)
(* Storage layer of the bLuna custody contract                             *)
(* (contracts/custody_bluna/src/state.rs).                                 *)
(*                                                                         *)
(* The contract keeps four record families in one flat, byte-ordered       *)
(* key-value store: the Config singleton, the global reward index          *)
(* singleton, the borrower bucket and the user-rewards bucket.  The model  *)
(* keeps the store at the level of byte strings: a key is the sequence of  *)
(* bytes cosmwasm_storage builds (length-prefixed namespace, then the raw  *)
(* address), a value is the serialized record, and every accessor is       *)
(* translated with the encode / decode step it performs.                   *)
(***************************************************************************)
EXTENDS Integers, Sequences, FiniteSets, TLC

VARIABLES
    storage,    \* the key-value store: a function from the keys present to their bytes
    call,       \* the call whose response the host has not yet taken: its name, its
                \* arguments, its result (Idle between calls)
    last        \* history: per record, the value of the last successful save (None if none)

vars == <<storage, call, last>>

----------------------------------------------------------------------------
(* Option and Result values.                                               *)

None == <<>>

Some(x) == <<x>>

IsSome(o) == o # <<>>

Ok(x) == <<"Ok", x>>

Err(e) == <<"Err", e>>

IsOk(r) == r[1] = "Ok"

IsErr(r) == r[1] = "Err"

Min(a, b) == IF a <= b THEN a ELSE b

----------------------------------------------------------------------------
(* Bounds of the model.                                                    *)

\* bytes an address is made of
Byte == {0, 1}

\* the fixed length of a canonical address
AddrLen == 2

\* most entries the borrower bucket holds in the ledger specifications
MaxStored == 2

\* at most this many borrowers stored while a cursor traversal is followed
MaxTraversed == 3

\* the addresses of the ledger specifications: every address of the canonical
\* length, and shorter ones (a CanonicalAddr is any byte string, the empty one
\* included)
CanonAddrs == [1..AddrLen -> Byte]

ShortAddrs == {<<>>, <<0>>}

Addrs == CanonAddrs \cup ShortAddrs

\* fractional digits of a Decimal256 in the model (18 in cosmwasm_bignumber)
DecimalPlaces == 1

\* most reward units a borrower accrues in the model
MaxRewards == 400

\* the address made of one repeated byte
AddrOf(b) == [i \in 1..AddrLen |-> b]

\* BorrowerInfo values the callers pass: all-zero, spendable < balance,
\* spendable > balance
ZeroInfo == [balance |-> 0, spendable |-> 0]

Infos == {ZeroInfo, [balance |-> 12, spendable |-> 5], [balance |-> 1, spendable |-> 2]}

\* limit arguments of the ledger specifications: absent, zero, small
Limits == {None, Some(0), Some(1), Some(2)}

\* Config values the callers pass ("uusd" / "ukrw", bLuna with 6 decimals)
ConfigA ==
    [owner                |-> AddrOf(0),
     collateral_token     |-> AddrOf(1),
     overseer_contract    |-> AddrOf(0),
     market_contract      |-> AddrOf(1),
     reward_contract      |-> AddrOf(0),
     liquidation_contract |-> AddrOf(1),
     stable_denom         |-> <<117, 117, 115, 100>>,
     basset_info          |-> [name     |-> <<98, 108, 117, 110, 97>>,
                               symbol   |-> <<66, 76, 85, 78, 65>>,
                               decimals |-> 6]]

ConfigB == [ConfigA EXCEPT !.owner = AddrOf(1), !.stable_denom = <<117, 107, 114, 119>>]

Configs == {ConfigA, ConfigB}

\* the addresses of the specification of the whole module
SpecAddrs == {AddrOf(0), AddrOf(1)}

\* the borrower of the rewards specification
RewardAddrs == {AddrOf(0)}

\* the balances the rewards specification settles against
RewardInfos == {[balance |-> 100, spendable |-> 100], [balance |-> 3, spendable |-> 0]}

\* borrowers of the pagination specification: MaxPage addresses of two bytes
MaxPage == 32

PageAddr(i) == <<i \div 8, i % 8>>

PageAddrs == {PageAddr(i) : i \in 0..(MaxPage - 1)}

PageLimits == {None, Some(0), Some(1), Some(29), Some(30), Some(31), Some(100)}

PageStarts == {None, Some(PageAddr(0)), Some(PageAddr(1)), Some(PageAddr(MaxPage - 1))}

----------------------------------------------------------------------------
(* Byte strings: order, keys and namespaces.                               *)

\* a < b in byte order (lexicographic, a proper prefix first)
LexLess(a, b) ==
    \E i \in 1..Len(b) :
        /\ i <= Len(a) + 1
        /\ \A j \in 1..(i - 1) : a[j] = b[j]
        /\ (i = Len(a) + 1 \/ a[i] < b[i])

LexLeq(a, b) == a = b \/ LexLess(a, b)

\* b"config"
KEY_CONFIG == <<99, 111, 110, 102, 105, 103>>

\* b"borrower"
PREFIX_BORROWER == <<98, 111, 114, 114, 111, 119, 101, 114>>

\* b"global_index"
KEY_GLOBAL_INDEX == <<103, 108, 111, 98, 97, 108, 95, 105, 110, 100, 101, 120>>

\* the UserRewards bucket under the namespace of the borrower bucket
PREFIX_USER_REWARDS_shared == <<98, 111, 114, 114, 111, 119, 101, 114>>

\* b"user_reward"
PREFIX_USER_REWARDS == <<117, 115, 101, 114, 95, 114, 101, 119, 97, 114, 100>>

\* cosmwasm_storage's to_length_prefixed: two length bytes (big endian), then the
\* namespace
to_length_prefixed(ns) == <<Len(ns) \div 256, Len(ns) % 256>> \o ns

\* the key of a singleton: Singleton::new(storage, key)
SingletonKey(key) == to_length_prefixed(key)

\* the key of a bucket entry: Bucket::new(storage, namespace) then save(k, ..)
BucketKey(ns, k) == to_length_prefixed(ns) \o k

\* the first key past every key of the namespace (the bucket's range end):
\* the prefix with its last byte incremented
namespace_upper_bound(prefix) ==
    [i \in 1..Len(prefix) |-> IF i = Len(prefix) THEN prefix[i] + 1 ELSE prefix[i]]

\* Storage::get
Get(s, k) == IF k \in DOMAIN s THEN Some(s[k]) ELSE None

\* Storage::set
Set(s, k, v) == [x \in (DOMAIN s) \cup {k} |-> IF x = k THEN v ELSE s[x]]

\* Storage::remove
Remove(s, k) == [x \in (DOMAIN s) \ {k} |-> s[x]]

\* the first n of a set of keys in descending byte order (Order::Descending)
RECURSIVE TakeDescending(_, _)
TakeDescending(S, n) ==
    IF n = 0 \/ S = {} THEN <<>>
    ELSE LET m == CHOOSE x \in S : \A y \in S : LexLeq(y, x)
         IN  <<m>> \o TakeDescending(S \ {m}, n - 1)

\* the first n of a set of keys in ascending byte order (an ascending range
\* iterator followed by take(n))
RECURSIVE TakeAscending(_, _)
TakeAscending(S, n) ==
    IF n = 0 \/ S = {} THEN <<>>
    ELSE LET m == CHOOSE x \in S : \A y \in S : LexLeq(x, y)
         IN  <<m>> \o TakeAscending(S \ {m}, n - 1)

\* ReadonlyBucket::range(start, None, Ascending): the keys of the namespace from
\* start (inclusive; the whole namespace when absent), prefix trimmed
BucketRange(s, ns, start) ==
    LET prefix == to_length_prefixed(ns)
        lo     == IF IsSome(start) THEN prefix \o start[1] ELSE prefix
        hi     == namespace_upper_bound(prefix)
    IN  {SubSeq(k, Len(prefix) + 1, Len(k)) :
            k \in {x \in DOMAIN s : LexLeq(lo, x) /\ LexLess(x, hi)}}

----------------------------------------------------------------------------
(* The record codec: cosmwasm_std::to_vec / from_slice (serde JSON).        *)
(* A serialized record is the sequence of its fields, each a pair of the   *)
(* field's name and the characters of its value; numbers are written as    *)
(* decimal strings (Uint256, Decimal256), addresses as text.               *)

\* Uint256 -> its decimal string
RECURSIVE ToDigits(_)
ToDigits(n) == IF n < 10 THEN <<48 + n>> ELSE ToDigits(n \div 10) \o <<48 + (n % 10)>>

IsDigits(ds) == Len(ds) > 0 /\ \A i \in 1..Len(ds) : ds[i] \in 48..57

\* a decimal string -> Uint256 (the caller checks IsDigits first)
RECURSIVE ParseDigits(_)
ParseDigits(ds) ==
    IF Len(ds) = 0 THEN 0
    ELSE 10 * ParseDigits(SubSeq(ds, 1, Len(ds) - 1)) + (ds[Len(ds)] - 48)

\* the shape of a serialized object: a sequence of (name, characters) pairs
\* with exactly the given field names, in the order serde writes them
HasFields(bytes, names) ==
    /\ Len(bytes) = Len(names)
    /\ \A i \in 1..Len(names) : bytes[i][1] = names[i]

\* the two fields written in each other's place
enc_BorrowerInfo_swapped(info) ==
    << <<"balance", ToDigits(info.spendable)>>, <<"spendable", ToDigits(info.balance)>> >>

\* to_vec(&BorrowerInfo)
enc_BorrowerInfo(info) ==
    << <<"balance", ToDigits(info.balance)>>, <<"spendable", ToDigits(info.spendable)>> >>

\* from_slice::<BorrowerInfo>
dec_BorrowerInfo(bytes) ==
    IF /\ HasFields(bytes, <<"balance", "spendable">>)
       /\ IsDigits(bytes[1][2])
       /\ IsDigits(bytes[2][2])
    THEN Ok([balance |-> ParseDigits(bytes[1][2]), spendable |-> ParseDigits(bytes[2][2])])
    ELSE Err("ParseErr")

\* CanonicalAddr -> its text form in a serialized record (Binary's encoding)
to_base64(a) == [i \in 1..Len(a) |-> 65 + a[i]]

IsBase64(cs) == \A i \in 1..Len(cs) : cs[i] \in 65..320

from_base64(cs) == [i \in 1..Len(cs) |-> cs[i] - 65]

RECURSIVE Pow10(_)
Pow10(n) == IF n = 0 THEN 1 ELSE 10 * Pow10(n - 1)

\* Decimal256::DECIMAL_FRACTIONAL: a Decimal256 is an integer count of
\* 1 / DECIMAL_FRACTIONAL
DECIMAL_FRACTIONAL == Pow10(DecimalPlaces)

\* the digits of n, left-padded with zeros to width w
RECURSIVE PadDigits(_, _)
PadDigits(n, w) == IF w = 0 THEN <<>> ELSE PadDigits(n \div 10, w - 1) \o <<48 + (n % 10)>>

RECURSIVE TrimTrailingZeros(_)
TrimTrailingZeros(ds) ==
    IF Len(ds) > 0 /\ ds[Len(ds)] = 48 THEN TrimTrailingZeros(SubSeq(ds, 1, Len(ds) - 1)) ELSE ds

\* Decimal256 -> string: the whole part, then "." and the fraction without its
\* trailing zeros when the fraction is not zero
DecimalToString(d) ==
    LET whole == d \div DECIMAL_FRACTIONAL
        frac  == d % DECIMAL_FRACTIONAL
    IN  IF frac = 0 THEN ToDigits(whole)
        ELSE ToDigits(whole) \o <<46>> \o TrimTrailingZeros(PadDigits(frac, DecimalPlaces))

\* the place of the "." in a string (0 when there is none)
DotAt(cs) == IF \E i \in 1..Len(cs) : cs[i] = 46 THEN CHOOSE i \in 1..Len(cs) : cs[i] = 46 ELSE 0

\* Decimal256::from_str: whole[.fraction], the fraction of at most
\* DecimalPlaces digits
IsDecimalString(cs) ==
    LET dot == DotAt(cs)
    IN  IF dot = 0 THEN IsDigits(cs)
        ELSE /\ IsDigits(SubSeq(cs, 1, dot - 1))
             /\ IsDigits(SubSeq(cs, dot + 1, Len(cs)))
             /\ Len(cs) - dot <= DecimalPlaces

StringToDecimal(cs) ==
    LET dot == DotAt(cs)
    IN  IF dot = 0 THEN ParseDigits(cs) * DECIMAL_FRACTIONAL
        ELSE ParseDigits(SubSeq(cs, 1, dot - 1)) * DECIMAL_FRACTIONAL
             + ParseDigits(SubSeq(cs, dot + 1, Len(cs))) * Pow10(DecimalPlaces - (Len(cs) - dot))

\* to_vec(&Decimal256): a bare string
enc_Decimal256(d) == << <<"", DecimalToString(d)>> >>

\* from_slice::<Decimal256>
dec_Decimal256(bytes) ==
    IF HasFields(bytes, <<"">>) /\ IsDecimalString(bytes[1][2])
    THEN Ok(StringToDecimal(bytes[1][2]))
    ELSE Err("ParseErr")

\* to_vec(&UserRewards) writing the index as its scaled integer, not as a
\* decimal string
enc_UserRewards_raw_index(ur) ==
    << <<"user_index", ToDigits(ur.user_index)>>, <<"rewards", ToDigits(ur.rewards)>> >>

\* to_vec(&UserRewards)
enc_UserRewards(ur) ==
    << <<"user_index", DecimalToString(ur.user_index)>>, <<"rewards", ToDigits(ur.rewards)>> >>

\* from_slice::<UserRewards>
dec_UserRewards(bytes) ==
    IF /\ HasFields(bytes, <<"user_index", "rewards">>)
       /\ IsDecimalString(bytes[1][2])
       /\ IsDigits(bytes[2][2])
    THEN Ok([user_index |-> StringToDecimal(bytes[1][2]), rewards |-> ParseDigits(bytes[2][2])])
    ELSE Err("ParseErr")

ConfigFields ==
    <<"owner", "collateral_token", "overseer_contract", "market_contract",
      "reward_contract", "liquidation_contract", "stable_denom",
      "basset_info.name", "basset_info.symbol", "basset_info.decimals">>

\* to_vec(&Config)
enc_Config(c) ==
    << <<"owner", to_base64(c.owner)>>,
       <<"collateral_token", to_base64(c.collateral_token)>>,
       <<"overseer_contract", to_base64(c.overseer_contract)>>,
       <<"market_contract", to_base64(c.market_contract)>>,
       <<"reward_contract", to_base64(c.reward_contract)>>,
       <<"liquidation_contract", to_base64(c.liquidation_contract)>>,
       <<"stable_denom", c.stable_denom>>,
       <<"basset_info.name", c.basset_info.name>>,
       <<"basset_info.symbol", c.basset_info.symbol>>,
       <<"basset_info.decimals", ToDigits(c.basset_info.decimals)>> >>

\* from_slice::<Config>
dec_Config(bytes) ==
    IF /\ HasFields(bytes, ConfigFields)
       /\ \A i \in 1..6 : IsBase64(bytes[i][2])
       /\ IsDigits(bytes[10][2])
    THEN Ok([owner                |-> from_base64(bytes[1][2]),
             collateral_token     |-> from_base64(bytes[2][2]),
             overseer_contract    |-> from_base64(bytes[3][2]),
             market_contract      |-> from_base64(bytes[4][2]),
             reward_contract      |-> from_base64(bytes[5][2]),
             liquidation_contract |-> from_base64(bytes[6][2]),
             stable_denom         |-> bytes[7][2],
             basset_info          |-> [name     |-> bytes[8][2],
                                       symbol   |-> bytes[9][2],
                                       decimals |-> ParseDigits(bytes[10][2])]])
    ELSE Err("ParseErr")

\* Singleton::load / Bucket::load: NotFound when the key is absent, the decode
\* result otherwise
load_Config(s) ==
    LET got == Get(s, SingletonKey(KEY_CONFIG))
    IN  IF IsSome(got) THEN dec_Config(got[1]) ELSE Err("NotFound")

load_BorrowerInfo(s, borrower) ==
    LET got == Get(s, BucketKey(PREFIX_BORROWER, borrower))
    IN  IF IsSome(got) THEN dec_BorrowerInfo(got[1]) ELSE Err("NotFound")

load_Decimal256(s) ==
    LET got == Get(s, SingletonKey(KEY_GLOBAL_INDEX))
    IN  IF IsSome(got) THEN dec_Decimal256(got[1]) ELSE Err("NotFound")

load_UserRewards(s, borrower) ==
    LET got == Get(s, BucketKey(PREFIX_USER_REWARDS, borrower))
    IN  IF IsSome(got) THEN dec_UserRewards(got[1]) ELSE Err("NotFound")

\* Api::addr_humanize: the displayable form of a raw address; an empty address
\* has none
addr_humanize(a) ==
    IF Len(a) = 0 THEN Err("AddressFormat")
    ELSE Ok(<<116>> \o [i \in 1..Len(a) |-> 97 + a[i]])

----------------------------------------------------------------------------
(* Ledger accessors.                                                       *)

store_config(s, data) == Set(s, SingletonKey(KEY_CONFIG), enc_Config(data))

\* read_config defaulting on a miss, as the other accessors do
read_config_defaulting(s) ==
    LET r == load_Config(s)
    IN  IF IsOk(r) THEN r ELSE Ok(ConfigA)

read_config(s) == load_Config(s)

\* store_borrower_info adding the new balance to the stored one
store_borrower_info_adding(s, borrower, borrower_info) ==
    LET r   == load_BorrowerInfo(s, borrower)
        old == IF IsOk(r) THEN r[2].balance ELSE 0
    IN  Set(s, BucketKey(PREFIX_BORROWER, borrower),
            enc_BorrowerInfo([borrower_info EXCEPT !.balance = @ + old]))

store_borrower_info(s, borrower, borrower_info) ==
    Set(s, BucketKey(PREFIX_BORROWER, borrower), enc_BorrowerInfo(borrower_info))

\* remove_borrower_info that removes nothing
remove_borrower_info_noop(s, borrower) == s

\* remove_borrower_info leaving an all-zero record in place of the entry
remove_borrower_info_zeroing(s, borrower) ==
    Set(s, BucketKey(PREFIX_BORROWER, borrower),
        enc_BorrowerInfo([balance |-> 0, spendable |-> 0]))

remove_borrower_info(s, borrower) ==
    Remove(s, BucketKey(PREFIX_BORROWER, borrower))

\* read_borrower_info with a default that is not all-zero
read_borrower_info_default_one(s, borrower) ==
    LET r == load_BorrowerInfo(s, borrower)
    IN  IF IsOk(r) THEN r[2] ELSE [balance |-> 1, spendable |-> 0]

read_borrower_info(s, borrower) ==
    LET r == load_BorrowerInfo(s, borrower)
    IN  IF IsOk(r) THEN r[2] ELSE [balance |-> 0, spendable |-> 0]

----------------------------------------------------------------------------
(* Pagination.                                                             *)

MAX_LIMIT == 30

DEFAULT_LIMIT == 10

\* calc_range_start without the appended byte: the range starts at the key itself
calc_range_start_inclusive(start_after) == start_after

\* the first key after the provided key: the key with a 1 byte appended
calc_range_start(start_after) ==
    IF IsSome(start_after) THEN Some(start_after[1] \o <<1>>) ELSE None

\* the limit clamped from below as well: at least one entry
EffectiveLimit_AtLeastOne(limit) ==
    IF IsSome(limit) THEN (IF limit[1] < 1 THEN 1 ELSE Min(limit[1], MAX_LIMIT)) ELSE DEFAULT_LIMIT

\* limit.unwrap_or(DEFAULT_LIMIT).min(MAX_LIMIT)
EffectiveLimit(limit) ==
    Min(IF IsSome(limit) THEN limit[1] ELSE DEFAULT_LIMIT, MAX_LIMIT)

\* one item of the page: the closure of read_borrowers' map
BorrowerItem(s, k) ==
    LET v == dec_BorrowerInfo(s[BucketKey(PREFIX_BORROWER, k)])
        h == addr_humanize(k)
    IN  IF IsErr(v) THEN v
        ELSE IF IsErr(h) THEN h
        ELSE Ok([borrower |-> h[2], balance |-> v[2].balance, spendable |-> v[2].spendable])

\* collecting the items that are Ok and dropping the others (a filter_map)
Collect_skipping(items) ==
    LET ok == {i \in 1..Len(items) : IsOk(items[i])}
    IN  Ok([j \in 1..Cardinality(ok) |->
               items[CHOOSE i \in ok : Cardinality({k \in ok : k < i}) = j - 1][2]])

\* collect::<StdResult<Vec<_>>>: the first error met in order, or every item
Collect(items) ==
    IF \E i \in 1..Len(items) : IsErr(items[i])
    THEN items[CHOOSE i \in 1..Len(items) :
                  IsErr(items[i]) /\ \A j \in 1..(i - 1) : IsOk(items[j])]
    ELSE Ok([i \in 1..Len(items) |-> items[i][2]])

\* read_borrowers ranging from the start of the bucket whatever the cursor
read_borrowers_ignoring_cursor(s, start_after, limit) ==
    LET n    == EffectiveLimit(limit)
        page == TakeAscending(BucketRange(s, PREFIX_BORROWER, None), n)
    IN  Collect([i \in 1..Len(page) |-> BorrowerItem(s, page[i])])

read_borrowers(s, start_after, limit) ==
    LET n     == EffectiveLimit(limit)
        start == calc_range_start(start_after)
        page  == TakeAscending(BucketRange(s, PREFIX_BORROWER, start), n)
    IN  Collect([i \in 1..Len(page) |-> BorrowerItem(s, page[i])])

----------------------------------------------------------------------------
(* Rewards / collateral.                                                   *)

\* save_global_index keeping the larger of the stored and the new value
save_global_index_max(s, data) ==
    LET r   == load_Decimal256(s)
        old == IF IsOk(r) THEN r[2] ELSE 0
    IN  Set(s, SingletonKey(KEY_GLOBAL_INDEX), enc_Decimal256(IF old > data THEN old ELSE data))

save_global_index(s, data) == Set(s, SingletonKey(KEY_GLOBAL_INDEX), enc_Decimal256(data))

\* read_global_index defaulting to one
read_global_index_default_one(s) ==
    LET r == load_Decimal256(s)
    IN  IF IsOk(r) THEN r[2] ELSE DECIMAL_FRACTIONAL

read_global_index(s) ==
    LET r == load_Decimal256(s)
    IN  IF IsOk(r) THEN r[2] ELSE 0

\* UserRewards::default()
DefaultUserRewards == [user_index |-> 0, rewards |-> 0]

read_user_rewards(s, borrower) ==
    LET r == load_UserRewards(s, borrower)
    IN  IF IsOk(r) THEN r[2] ELSE DefaultUserRewards

\* save_user_rewards adding the new rewards to the stored ones
save_user_rewards_adding(s, borrower, new_rewards) ==
    LET r   == load_UserRewards(s, borrower)
        old == IF IsOk(r) THEN r[2].rewards ELSE 0
    IN  Set(s, BucketKey(PREFIX_USER_REWARDS, borrower),
            enc_UserRewards([new_rewards EXCEPT !.rewards = @ + old]))

save_user_rewards(s, borrower, new_rewards) ==
    Set(s, BucketKey(PREFIX_USER_REWARDS, borrower), enc_UserRewards(new_rewards))

\* Decimal256 * Uint256: the product reduced to whole units, rounded down
DecimalMul(d, n) == (d * n) \div DECIMAL_FRACTIONAL

\* settlement of a borrower's rewards, by the caller:
\*   rewards += (global_index - user_index) * n_collateral_units
\*   user_index = global_index
\* with n the borrower's balance before any pending change
SettledRewards(s, borrower) ==
    LET g  == read_global_index(s)
        ur == read_user_rewards(s, borrower)
        n  == read_borrower_info(s, borrower).balance
    IN  [user_index |-> g, rewards |-> ur.rewards + DecimalMul(g - ur.user_index, n)]

\* the settlement needs global_index >= user_index: the subtraction of two
\* Decimal256 fails otherwise and the call is abandoned
CanSettle(s, borrower) == read_global_index(s) >= read_user_rewards(s, borrower).user_index

settle(s, borrower) ==
    IF CanSettle(s, borrower) THEN save_user_rewards(s, borrower, SettledRewards(s, borrower))
    ELSE s

\* global index values the callers pass: 0, 0.5 and 2
Indexes == {0, DECIMAL_FRACTIONAL \div 2, 2 * DECIMAL_FRACTIONAL}

\* UserRewards values the callers pass
RewardVals == {DefaultUserRewards, [user_index |-> DECIMAL_FRACTIONAL \div 2, rewards |-> 7]}

----------------------------------------------------------------------------
(* The state machine.                                                      *)

\* nothing saved yet: the two singletons hold None, the two buckets no address
NoLast == [config |-> None, global |-> None, borrower |-> <<>>, rewards |-> <<>>]

\* no call in progress
Idle == [op |-> "none", arg |-> <<>>, res |-> Ok(<<>>)]

\* an empty store, before any call
Init ==
    /\ storage = <<>>
    /\ call = Idle
    /\ last = NoLast

\* the host runs one call at a time: a call starts when the previous one has
\* returned, and runs to its end in one step
Respond ==
    /\ call # Idle
    /\ call' = Idle
    /\ UNCHANGED <<storage, last>>

\* the borrower addresses with an entry in the bucket
StoredBorrowers(s) == BucketRange(s, PREFIX_BORROWER, None)

StoreBorrowerInfo(a, info) ==
    /\ call = Idle
    /\ storage' = store_borrower_info(storage, a, info)
    /\ call' = [op |-> "store_borrower_info", arg |-> <<a, info>>, res |-> Ok(<<>>)]
    /\ last' = [last EXCEPT !.borrower = Set(@, a, info)]

RemoveBorrowerInfo(a) ==
    /\ call = Idle
    /\ storage' = remove_borrower_info(storage, a)
    /\ call' = [op |-> "remove_borrower_info", arg |-> <<a>>, res |-> Ok(<<>>)]
    /\ last' = [last EXCEPT !.borrower = Remove(@, a)]

ReadBorrowerInfo(a) ==
    /\ call = Idle
    /\ call' = [op |-> "read_borrower_info", arg |-> <<a>>,
                res |-> Ok(read_borrower_info(storage, a))]
    /\ UNCHANGED <<storage, last>>

ReadBorrowers(start_after, limit) ==
    /\ call = Idle
    /\ call' = [op |-> "read_borrowers", arg |-> <<start_after, limit>>,
                res |-> read_borrowers(storage, start_after, limit)]
    /\ UNCHANGED <<storage, last>>

StoreConfig(data) ==
    /\ call = Idle
    /\ storage' = store_config(storage, data)
    /\ call' = [op |-> "store_config", arg |-> <<data>>, res |-> Ok(<<>>)]
    /\ last' = [last EXCEPT !.config = Some(data)]

ReadConfig ==
    /\ call = Idle
    /\ call' = [op |-> "read_config", arg |-> <<>>, res |-> read_config(storage)]
    /\ UNCHANGED <<storage, last>>

SaveGlobalIndex(data) ==
    /\ call = Idle
    /\ storage' = save_global_index(storage, data)
    /\ call' = [op |-> "save_global_index", arg |-> <<data>>, res |-> Ok(<<>>)]
    /\ last' = [last EXCEPT !.global = Some(data)]

ReadGlobalIndex ==
    /\ call = Idle
    /\ call' = [op |-> "read_global_index", arg |-> <<>>, res |-> Ok(read_global_index(storage))]
    /\ UNCHANGED <<storage, last>>

SaveUserRewards(a, new_rewards) ==
    /\ call = Idle
    /\ storage' = save_user_rewards(storage, a, new_rewards)
    /\ call' = [op |-> "save_user_rewards", arg |-> <<a, new_rewards>>, res |-> Ok(<<>>)]
    /\ last' = [last EXCEPT !.rewards = Set(@, a, new_rewards)]

ReadUserRewards(a) ==
    /\ call = Idle
    /\ call' = [op |-> "read_user_rewards", arg |-> <<a>>,
                res |-> Ok(read_user_rewards(storage, a))]
    /\ UNCHANGED <<storage, last>>

\* the caller settles a borrower: the arguments keep what it read (the global
\* index, the stored UserRewards, the balance)
Settle(a) ==
    /\ call = Idle
    /\ storage' = settle(storage, a)
    /\ call' = [op  |-> "settle",
                arg |-> <<a, read_global_index(storage), read_user_rewards(storage, a),
                          read_borrower_info(storage, a).balance>>,
                res |-> IF CanSettle(storage, a) THEN Ok(<<>>) ELSE Err("InvariantViolation")]
    /\ last' = IF CanSettle(storage, a)
               THEN [last EXCEPT !.rewards = Set(@, a, SettledRewards(storage, a))]
               ELSE last

\* the bound on the rewards: a settlement only up to MaxRewards
CanAccrue(a) == SettledRewards(storage, a).rewards <= MaxRewards

\* the bound on the bucket's size: a new entry only below MaxStored
CanStore(a) ==
    a \in StoredBorrowers(storage) \/ Cardinality(StoredBorrowers(storage)) < MaxStored

StartAfters == {None} \cup {Some(a) : a \in Addrs}

NextLedger ==
    \/ \E a \in Addrs, info \in Infos : StoreBorrowerInfo(a, info) /\ CanStore(a)
    \/ \E a \in Addrs : RemoveBorrowerInfo(a)
    \/ \E a \in Addrs : ReadBorrowerInfo(a)
    \/ \E sa \in StartAfters, l \in Limits : ReadBorrowers(sa, l)
    \/ Respond

\* the borrower ledger alone
SpecLedger == Init /\ [][NextLedger]_vars

SpecStarts == {None} \cup {Some(a) : a \in SpecAddrs}

\* every operation of the module
Next ==
    \/ \E c \in Configs : StoreConfig(c)
    \/ ReadConfig
    \/ \E a \in SpecAddrs, info \in Infos : StoreBorrowerInfo(a, info)
    \/ \E a \in SpecAddrs : RemoveBorrowerInfo(a)
    \/ \E a \in SpecAddrs : ReadBorrowerInfo(a)
    \/ \E sa \in SpecStarts, l \in Limits : ReadBorrowers(sa, l)
    \/ \E d \in Indexes : SaveGlobalIndex(d)
    \/ ReadGlobalIndex
    \/ \E a \in SpecAddrs, ur \in RewardVals : SaveUserRewards(a, ur)
    \/ \E a \in SpecAddrs : ReadUserRewards(a)
    \/ Respond

Spec == Init /\ [][Next]_vars

\* the reward accrual: the global index, one borrower's balance and rewards,
\* and the settlement
NextRewards ==
    \/ \E d \in Indexes : SaveGlobalIndex(d)
    \/ ReadGlobalIndex
    \/ \E a \in RewardAddrs, ur \in RewardVals : SaveUserRewards(a, ur)
    \/ \E a \in RewardAddrs : ReadUserRewards(a)
    \/ \E a \in RewardAddrs, info \in RewardInfos : StoreBorrowerInfo(a, info)
    \/ \E a \in RewardAddrs : Settle(a) /\ CanAccrue(a)
    \/ Respond

SpecRewards == Init /\ [][NextRewards]_vars

\* the next borrower to deposit in the pagination specification: the first one
\* without an entry, in an order that is not the byte order
NextDepositor(s) ==
    LET free == {j \in 0..(MaxPage - 1) : PageAddr((7 * j) % MaxPage) \notin StoredBorrowers(s)}
    IN  PageAddr((7 * (CHOOSE j \in free : \A k \in free : j <= k)) % MaxPage)

\* pagination over a bucket of up to MaxPage borrowers (and the empty address)
NextPage ==
    \/ /\ call = Idle
       /\ StoredBorrowers(storage) \cap PageAddrs # PageAddrs
       /\ StoreBorrowerInfo(NextDepositor(storage), [balance |-> 12, spendable |-> 5])
    \/ StoreBorrowerInfo(<<>>, ZeroInfo)
    \/ \E a \in {<<>>, PageAddr(0), PageAddr(7)} : RemoveBorrowerInfo(a)
    \/ \E sa \in PageStarts, l \in PageLimits : ReadBorrowers(sa, l)
    \/ Respond

SpecPage == Init /\ [][NextPage]_vars

\* the borrower of the injected-storage specification
InjAddr == AddrOf(0)

\* bytes found under a key that this module's writers did not put there: empty,
\* a record with a non-numeric field, or the serialized form of some record
\* (of the key's own type or of another)
InjectedValues ==
    {<<>>,
     << <<"balance", <<120>>>>, <<"spendable", <<49>>>> >>,
     enc_BorrowerInfo([balance |-> 12, spendable |-> 5]),
     enc_UserRewards([user_index |-> DECIMAL_FRACTIONAL \div 2, rewards |-> 7]),
     enc_Decimal256(2 * DECIMAL_FRACTIONAL)}

Absent == << <<"absent", <<>>>> >>

InjectedKeys ==
    <<SingletonKey(KEY_CONFIG), SingletonKey(KEY_GLOBAL_INDEX),
      BucketKey(PREFIX_BORROWER, InjAddr), BucketKey(PREFIX_USER_REWARDS, InjAddr)>>

\* the accessors take the store as an argument: here it starts with any bytes
\* under the four keys (written by another version of the contract, say)
InitInjected ==
    /\ \E v \in [1..4 -> InjectedValues \cup {Absent}] :
           storage = [k \in {InjectedKeys[i] : i \in {j \in 1..4 : v[j] # Absent}} |->
                         v[CHOOSE i \in 1..4 : InjectedKeys[i] = k]]
    /\ call = Idle
    /\ last = NoLast

NextInjected ==
    \/ StoreConfig(ConfigA)
    \/ ReadConfig
    \/ StoreBorrowerInfo(InjAddr, [balance |-> 12, spendable |-> 5])
    \/ RemoveBorrowerInfo(InjAddr)
    \/ ReadBorrowerInfo(InjAddr)
    \/ \E l \in {None, Some(0)} : ReadBorrowers(None, l)
    \/ SaveGlobalIndex(2 * DECIMAL_FRACTIONAL)
    \/ ReadGlobalIndex
    \/ SaveUserRewards(InjAddr, [user_index |-> DECIMAL_FRACTIONAL \div 2, rewards |-> 7])
    \/ ReadUserRewards(InjAddr)
    \/ Respond

\* the accessors over a store whose bytes may not decode
SpecInjected == InitInjected /\ [][NextInjected]_vars

\* the address a displayable address is canonicalized to: what a caller passes
\* as start_after to continue after an entry of a page
addr_canonicalize(h) == [i \in 1..(Len(h) - 1) |-> h[i + 1] - 97]

\* a caller starts paging through the borrowers: the first read_borrowers call,
\* without a cursor; arg[3] keeps the addresses of the pages before this one
TraverseStart(limit) ==
    /\ call = Idle
    /\ call' = [op |-> "traverse", arg |-> <<None, limit, <<>>>>,
                res |-> read_borrowers(storage, None, limit)]
    /\ UNCHANGED <<storage, last>>

\* the page just returned is full, there may be more: it holds the limit's
\* number of entries and a last entry to continue after
MorePages ==
    /\ call.op = "traverse"
    /\ IsOk(call.res)
    /\ Len(call.res[2]) > 0
    /\ Len(call.res[2]) = EffectiveLimit(call.arg[2])

\* the next read_borrowers call of the traversal: start_after is the last
\* address of the page before
TraverseNext ==
    /\ MorePages
    /\ LET page   == call.res[2]
           cursor == Some(addr_canonicalize(page[Len(page)].borrower))
       IN  call' = [op  |-> "traverse",
                    arg |-> <<cursor, call.arg[2],
                              call.arg[3] \o [i \in 1..Len(page) |->
                                                 addr_canonicalize(page[i].borrower)]>>,
                    res |-> read_borrowers(storage, cursor, call.arg[2])]
    /\ UNCHANGED <<storage, last>>

\* the bound on the bucket's size in the traversal specification
CanStoreTraversed(a) ==
    a \in StoredBorrowers(storage) \/ Cardinality(StoredBorrowers(storage)) < MaxTraversed

\* borrowers are stored and removed, then a caller pages through them; no
\* write runs while a traversal is followed, and a traversal ends (the call
\* record is dropped) once a page is not full
NextTraversal ==
    \/ \E a \in Addrs :
           StoreBorrowerInfo(a, [balance |-> 12, spendable |-> 5]) /\ CanStoreTraversed(a)
    \/ \E a \in Addrs : RemoveBorrowerInfo(a)
    \/ \E l \in Limits : TraverseStart(l)
    \/ TraverseNext
    \/ ~MorePages /\ Respond

\* weak fairness of TraverseNext, that is WF_vars(TraverseNext), written out with
\* MorePages for ENABLED <<TraverseNext>>_vars (a TraverseNext step always
\* changes call: the collected addresses grow): the caller that started a
\* traversal goes on while pages are full
TraversalFairness == []<>(~MorePages) \/ []<><<TraverseNext>>_vars

SpecTraversal == Init /\ [][NextTraversal]_vars /\ TraversalFairness

\* the borrowers of the corrupt-ledger specification: the empty address and
\* two addresses of full length
CorruptAddrs == {<<>>, AddrOf(0), AddrOf(1)}

\* read_borrowers takes the store as it is: here the borrower bucket starts with
\* any bytes under the keys of CorruptAddrs (a well-formed record, or bytes
\* that are no BorrowerInfo)
InitCorrupt ==
    /\ \E v \in [CorruptAddrs -> InjectedValues \cup {Absent}] :
           storage = [k \in {BucketKey(PREFIX_BORROWER, a) : a \in {x \in CorruptAddrs : v[x] # Absent}} |->
                         v[CHOOSE a \in CorruptAddrs : BucketKey(PREFIX_BORROWER, a) = k]]
    /\ call = Idle
    /\ last = NoLast

CorruptStarts == {None, Some(<<>>), Some(AddrOf(0))}

NextCorrupt ==
    \/ \E a \in CorruptAddrs : StoreBorrowerInfo(a, [balance |-> 12, spendable |-> 5])
    \/ \E a \in CorruptAddrs : RemoveBorrowerInfo(a)
    \/ \E a \in CorruptAddrs : ReadBorrowerInfo(a)
    \/ \E sa \in CorruptStarts, l \in Limits : ReadBorrowers(sa, l)
    \/ Respond

\* the borrower ledger over a bucket whose entries may not decode
SpecCorrupt == InitCorrupt /\ [][NextCorrupt]_vars

----------------------------------------------------------------------------
(* Properties.                                                             *)

\* the raw address a displayable address stands for
RawOf(h) == [i \in 1..(Len(h) - 1) |-> h[i + 1] - 97]

\* the addresses a page lists, in order
PageKeys(page) == [i \in 1..Len(page) |-> RawOf(page[i].borrower)]

\* keys are the first n of the set S in strictly ascending byte order
IsFirstOf(keys, S, n) ==
    /\ Len(keys) = n
    /\ \A i \in 1..Len(keys) : keys[i] \in S
    /\ \A i, j \in 1..Len(keys) : i < j => LexLess(keys[i], keys[j])
    /\ \A k \in S : (\A i \in 1..Len(keys) : keys[i] # k) =>
                        \A i \in 1..Len(keys) : LexLess(keys[i], k)

\* the addresses with a stored BorrowerInfo: those saved and not removed since
Stored == DOMAIN last.borrower

\* the stored addresses strictly after an optional cursor
Eligible(start_after) ==
    {k \in Stored : start_after = None \/ LexLess(start_after[1], k)}

\* the page size the code works with: the limit capped at MAX_LIMIT,
\* DEFAULT_LIMIT when absent
CappedLimit(limit) ==
    IF limit = None THEN DEFAULT_LIMIT
    ELSE IF limit[1] > MAX_LIMIT THEN MAX_LIMIT ELSE limit[1]

\* C1: when every stored borrower's raw address has the length of the cursor A,
\* read_borrowers(Some(A), limit) succeeds and returns exactly the first
\* min(L, k) stored borrowers strictly greater than A in byte order: A is not
\* returned and no greater borrower is skipped.
C1_ExclusiveStart ==
    (/\ call.op = "read_borrowers"
     /\ IsSome(call.arg[1])
     /\ \A k \in Stored : Len(k) = Len(call.arg[1][1]))
    => /\ IsOk(call.res)
       /\ IsFirstOf(PageKeys(call.res[2]), Eligible(call.arg[1]),
                    Min(CappedLimit(call.arg[2]), Cardinality(Eligible(call.arg[1]))))

\* C1 witness: A and B > A both stored, the page after A is [B]
C1_Witness ==
    /\ call.op = "read_borrowers"
    /\ call.arg[1] = Some(AddrOf(0))
    /\ Stored = {AddrOf(0), AddrOf(1)}
    /\ IsOk(call.res)
    /\ PageKeys(call.res[2]) = <<AddrOf(1)>>

\* the page size of the claim as first stated: the limit clamped to [1, MAX_LIMIT]
ClampedLimit(limit) ==
    IF limit = None THEN DEFAULT_LIMIT
    ELSE IF limit[1] < 1 THEN 1
    ELSE IF limit[1] > MAX_LIMIT THEN MAX_LIMIT ELSE limit[1]

\* C2 as first stated (for the calls that succeed): the page holds exactly
\* min(limit clamped to [1, 30], number of eligible borrowers) entries, so at
\* least one when an eligible borrower exists.
C2_ClampedToOneThirty ==
    (call.op = "read_borrowers" /\ IsOk(call.res))
    => Len(call.res[2]) =
           Min(ClampedLimit(call.arg[2]), Cardinality(Eligible(call.arg[1])))

\* C2, amended: the page size is the limit capped at 30 (10 when absent) with no
\* lower clamp, so limit 0 gives an empty page; every call that succeeds returns
\* exactly min(capped limit, number of eligible borrowers) entries, never more
\* than 30, and a call with limit 0 always succeeds.
C2_CappedAtThirty ==
    call.op = "read_borrowers"
    => /\ IsOk(call.res) =>
             /\ Len(call.res[2]) =
                    Min(CappedLimit(call.arg[2]), Cardinality(Eligible(call.arg[1])))
             /\ Len(call.res[2]) <= 30
       /\ call.arg[2] = Some(0) => call.res = Ok(<<>>)

\* C2 witness: limit 100 over more than 30 borrowers returns 30 entries
C2_Witness ==
    /\ call.op = "read_borrowers"
    /\ call.arg = <<None, Some(100)>>
    /\ Cardinality(Stored) > 30
    /\ IsOk(call.res)
    /\ Len(call.res[2]) = 30

\* the global index last saved (zero before the first save)
SavedIndex == IF IsSome(last.global) THEN last.global[1] ELSE 0

\* the balance last stored for a borrower (zero without an entry)
SavedBalance(a) == IF a \in Stored THEN last.borrower[a].balance ELSE 0

\* C3: a settlement that read the UserRewards {u, r} of a borrower with
\* balance n under the global index g leaves rewards = r + floor((g - u) * n) and
\* user_index = g stored, and settling again with g and n unchanged changes
\* nothing.
C3_Settlement ==
    (call.op = "settle" /\ IsOk(call.res))
    => LET a  == call.arg[1]
           g  == SavedIndex
           ur == call.arg[3]
           n  == SavedBalance(a)
       IN  /\ read_user_rewards(storage, a) =
                  [user_index |-> g,
                   rewards    |-> ur.rewards + ((g - ur.user_index) * n) \div Pow10(DecimalPlaces)]
           /\ settle(storage, a) = storage

\* C3 witness: balance 100, index 0 -> 2, rewards 0 -> 200
C3_Witness ==
    /\ call.op = "settle"
    /\ IsOk(call.res)
    /\ call.arg[3] = [user_index |-> 0, rewards |-> 0]
    /\ SavedBalance(call.arg[1]) = 100
    /\ SavedIndex = 2 * Pow10(DecimalPlaces)
    /\ read_user_rewards(storage, call.arg[1]).rewards = 200

\* C4 as first stated: every stored BorrowerInfo has spendable <= balance.
C4_SpendableWithinBalance ==
    \A a \in StoredBorrowers(storage) :
        read_borrower_info(storage, a).spendable <= read_borrower_info(storage, a).balance

\* C4, amended: store_borrower_info validates nothing, so a stored record has
\* spendable <= balance exactly when the last store_borrower_info call for its
\* address passed such a record; no other operation makes a record violate it.
C4_SpendableAsPassed ==
    \A a \in StoredBorrowers(storage) :
        /\ a \in Stored
        /\ (read_borrower_info(storage, a).spendable <= read_borrower_info(storage, a).balance)
               <=> (last.borrower[a].spendable <= last.borrower[a].balance)

\* C4 witness: a record with spendable < balance was passed and is stored
C4_Witness ==
    /\ call.op = "store_borrower_info"
    /\ call.arg[2].spendable < call.arg[2].balance
    /\ read_borrower_info(storage, call.arg[1]) = call.arg[2]

\* C5 as first stated: the value read_global_index returns never decreases.
C5_IndexNeverDecreases ==
    [][read_global_index(storage') >= read_global_index(storage)]_vars

\* C5, amended: read_global_index returns the value of the latest
\* save_global_index call (zero before the first) and no other operation changes
\* it: it decreases exactly when a caller saves a smaller value, and is
\* non-decreasing when the saved values are.
C5_IndexIsLastSaved ==
    [][IF call'.op = "save_global_index"
       THEN read_global_index(storage') = call'.arg[1]
       ELSE read_global_index(storage') = read_global_index(storage)]_vars

\* C5 witness: a global index above zero was saved and is what is read
C5_Witness ==
    /\ call.op = "save_global_index"
    /\ call.arg[1] > 0
    /\ read_global_index(storage) = call.arg[1]

\* the store without the entry of borrower a
WithoutBorrower(a) == Remove(storage, BucketKey(PREFIX_BORROWER, a))

\* the borrowers whose stored record is all-zero
ZeroStored == {a \in Stored : last.borrower[a] = ZeroInfo}

\* C6 as first stated: a store with an all-zero record for a borrower and the
\* same store without that record give the same result for every
\* read_borrower_info and every read_borrowers call (here: every read_borrowers
\* call that succeeds).
C6_ZeroRecordInvisible ==
    \A a \in ZeroStored :
        /\ call.op = "read_borrower_info" =>
               read_borrower_info(WithoutBorrower(a), call.arg[1]) = call.res[2]
        /\ (call.op = "read_borrowers" /\ IsOk(call.res)) =>
               read_borrowers(WithoutBorrower(a), call.arg[1], call.arg[2]) = call.res

\* C6, amended: the two stores are indistinguishable through read_borrower_info
\* only; read_borrowers tells them apart, since it lists a stored all-zero
\* record like any other entry (read_borrowers(None, None), when it succeeds,
\* lists every stored all-zero record, and no read_borrowers result lists an
\* address without a record).
C6_ZeroRecordInvisibleToPointReads ==
    /\ call.op = "read_borrower_info" =>
           \A a \in ZeroStored :
               read_borrower_info(WithoutBorrower(a), call.arg[1]) = call.res[2]
    /\ (call.op = "read_borrowers" /\ IsOk(call.res)) =>
           /\ \A i \in 1..Len(call.res[2]) : PageKeys(call.res[2])[i] \in Stored
           /\ call.arg = <<None, None>> =>
                  \A a \in ZeroStored :
                      \E i \in 1..Len(call.res[2]) :
                          /\ PageKeys(call.res[2])[i] = a
                          /\ call.res[2][i].balance = 0
                          /\ call.res[2][i].spendable = 0

\* C6 witness: read_borrower_info of a borrower whose stored record is all-zero
C6_Witness ==
    /\ call.op = "read_borrower_info"
    /\ call.arg[1] \in ZeroStored
    /\ call.res = Ok(ZeroInfo)

\* the injected values that are no serialized BorrowerInfo, UserRewards,
\* Decimal256, Config
NoBorrowerInfo == InjectedValues \ {enc_BorrowerInfo([balance |-> 12, spendable |-> 5])}

NoUserRewards ==
    InjectedValues \ {enc_UserRewards([user_index |-> DECIMAL_FRACTIONAL \div 2, rewards |-> 7])}

NoDecimal256 == InjectedValues \ {enc_Decimal256(2 * DECIMAL_FRACTIONAL)}

NoConfig == InjectedValues

\* bytes of the set Invalid are stored under the key
Undecodable(k, Invalid) == k \in DOMAIN storage /\ storage[k] \in Invalid

\* no bytes are stored under the key, or bytes of the set Invalid
Unreadable(k, Invalid) == k \notin DOMAIN storage \/ storage[k] \in Invalid

\* C7 as first stated: when the bytes under a BorrowerInfo, UserRewards or
\* global-index key exist but fail to decode, the accessor reports a failure
\* instead of returning the zero default.
C7_DecodeFailureSurfaced ==
    /\ (/\ call.op = "read_borrower_info"
        /\ Undecodable(BucketKey(PREFIX_BORROWER, call.arg[1]), NoBorrowerInfo))
       => IsErr(call.res)
    /\ (/\ call.op = "read_user_rewards"
        /\ Undecodable(BucketKey(PREFIX_USER_REWARDS, call.arg[1]), NoUserRewards))
       => IsErr(call.res)
    /\ (call.op = "read_global_index" /\ Undecodable(SingletonKey(KEY_GLOBAL_INDEX), NoDecimal256))
       => IsErr(call.res)

\* C7, amended: read_borrower_info, read_user_rewards and read_global_index
\* never fail: they return the zero default both when the record is absent and
\* when its bytes fail to decode; read_config is the accessor that reports a
\* decode failure.
C7_DecodeFailureDefaulted ==
    /\ (/\ call.op = "read_borrower_info"
        /\ Unreadable(BucketKey(PREFIX_BORROWER, call.arg[1]), NoBorrowerInfo))
       => call.res = Ok([balance |-> 0, spendable |-> 0])
    /\ (/\ call.op = "read_user_rewards"
        /\ Unreadable(BucketKey(PREFIX_USER_REWARDS, call.arg[1]), NoUserRewards))
       => call.res = Ok([user_index |-> 0, rewards |-> 0])
    /\ (call.op = "read_global_index" /\ Unreadable(SingletonKey(KEY_GLOBAL_INDEX), NoDecimal256))
       => call.res = Ok(0)
    /\ (call.op = "read_config" /\ Undecodable(SingletonKey(KEY_CONFIG), NoConfig))
       => call.res = Err("ParseErr")

\* C7 witness: the global index is read while its bytes do not decode
C7_Witness ==
    /\ call.op = "read_global_index"
    /\ Undecodable(SingletonKey(KEY_GLOBAL_INDEX), NoDecimal256)
    /\ call.res = Ok(0)

\* addresses read in the properties of the whole module: the ones written and
\* ones never written
ReadAddrs == SpecAddrs \cup Addrs

\* C8: for every address without a stored entry (never written, or removed
\* since), read_borrower_info returns {0, 0} and read_user_rewards returns
\* {0, 0}; read_global_index returns 0 while save_global_index was never called;
\* none of these reads fails.
C8_DefaultOnMiss ==
    /\ \A a \in ReadAddrs :
           a \notin Stored => read_borrower_info(storage, a) = [balance |-> 0, spendable |-> 0]
    /\ \A a \in ReadAddrs :
           a \notin DOMAIN last.rewards =>
               read_user_rewards(storage, a) = [user_index |-> 0, rewards |-> 0]
    /\ last.global = None => read_global_index(storage) = 0
    /\ call.op \in {"read_borrower_info", "read_user_rewards", "read_global_index"}
           => IsOk(call.res)

\* C8 witness: the zero default is read for a borrower that has rewards saved
\* and no BorrowerInfo, while another borrower has one
C8_Witness ==
    /\ call.op = "read_borrower_info"
    /\ call.arg[1] \notin Stored
    /\ call.arg[1] \in DOMAIN last.rewards
    /\ Stored # {}
    /\ call.res = Ok(ZeroInfo)

\* C9: read_config fails (NotFound) in every state in which store_config has
\* not succeeded yet, whatever the other accessors wrote; afterwards it returns
\* the Config stored last.
C9_ConfigNeverDefaulted ==
    /\ last.config = None => read_config(storage) = Err("NotFound")
    /\ IsSome(last.config) =>
           /\ IsOk(read_config(storage))
           /\ read_config(storage)[2] = last.config[1]
    /\ call.op = "read_config" => call.res = read_config(storage)

\* C9 witness: read_config fails although the other three families were written
C9_Witness ==
    /\ call.op = "read_config"
    /\ call.res = Err("NotFound")
    /\ Stored # {}
    /\ DOMAIN last.rewards # {}
    /\ IsSome(last.global)

\* C10: for each record family, the read that follows a successful save of v,
\* with no write or remove of the same key in between, returns exactly v,
\* whatever was stored under the key before.
C10_RoundTrip ==
    /\ IsSome(last.config) =>
           /\ IsOk(read_config(storage))
           /\ read_config(storage)[2] = last.config[1]
    /\ IsSome(last.global) => read_global_index(storage) = last.global[1]
    /\ \A a \in Stored : read_borrower_info(storage, a) = last.borrower[a]
    /\ \A a \in DOMAIN last.rewards : read_user_rewards(storage, a) = last.rewards[a]

\* C10 witness: a BorrowerInfo is stored and read back while all four families
\* hold a value, the same address holding a UserRewards record too
C10_Witness ==
    /\ call.op = "store_borrower_info"
    /\ call.arg[2] = [balance |-> 12, spendable |-> 5]
    /\ read_borrower_info(storage, call.arg[1]) = call.arg[2]
    /\ call.arg[1] \in DOMAIN last.rewards
    /\ last.config = Some(ConfigB)
    /\ IsSome(last.global)

\* the borrower is on no page read_borrowers can return from the store s
NotListed(s, a) ==
    \A sa \in StartAfters, l \in Limits :
        LET r == read_borrowers(s, sa, l)
        IN  IsOk(r) => \A i \in 1..Len(r[2]) : PageKeys(r[2])[i] # a

\* C11: remove_borrower_info never fails; on an address without an entry it
\* leaves the store as it was; a second removal right after the first changes
\* nothing more; after it read_borrower_info returns the zero default and no
\* read_borrowers page lists the address.
C11_RemoveIdempotent ==
    [][call'.op = "remove_borrower_info"
       => LET a == call'.arg[1]
          IN  /\ IsOk(call'.res)
              /\ a \notin Stored => storage' = storage
              /\ remove_borrower_info(storage', a) = storage'
              /\ a \notin StoredBorrowers(storage')
              /\ read_borrower_info(storage', a) = [balance |-> 0, spendable |-> 0]
              /\ NotListed(storage', a)]_vars

\* C11 witness: an address was removed and has no entry while another borrower
\* keeps a non-zero one; removing it again changes nothing
C11_Witness ==
    /\ call.op = "remove_borrower_info"
    /\ call.arg[1] = AddrOf(0)
    /\ Stored = {AddrOf(1)}
    /\ last.borrower[AddrOf(1)] = [balance |-> 12, spendable |-> 5]
    /\ remove_borrower_info(storage, call.arg[1]) = storage
    /\ read_borrower_info(storage, call.arg[1]) = ZeroInfo

\* the addresses with an entry in the UserRewards bucket
StoredRewards(s) == BucketRange(s, PREFIX_USER_REWARDS, None)

\* some stored UserRewards record has its snapshot ahead of the global index
SnapshotAhead(s) ==
    \E a \in StoredRewards(s) : read_user_rewards(s, a).user_index > read_global_index(s)

\* C12 as first stated: in every reachable state every stored UserRewards
\* record has user_index <= the value read_global_index returns.
C12_SnapshotNeverAhead == ~SnapshotAhead(storage)

\* C12, amended: save_user_rewards and save_global_index check nothing, each
\* stores what it is given. A snapshot gets ahead of the global index only by a
\* save_user_rewards call passed a user_index above the current global index or
\* by a save_global_index call passed a value below a stored user_index; a
\* settlement that succeeds leaves user_index equal to the global index.
C12_SnapshotAsSaved ==
    [][/\ (SnapshotAhead(storage') /\ ~SnapshotAhead(storage))
          => \/ /\ call'.op = "save_user_rewards"
                /\ call'.arg[2].user_index > read_global_index(storage)
             \/ /\ call'.op = "save_global_index"
                /\ \E a \in StoredRewards(storage) :
                       call'.arg[1] < read_user_rewards(storage, a).user_index
       /\ call'.op = "save_user_rewards"
          => read_user_rewards(storage', call'.arg[1]) = call'.arg[2]
       /\ (call'.op = "settle" /\ IsOk(call'.res))
          => read_user_rewards(storage', call'.arg[1]).user_index = read_global_index(storage')
      ]_vars

\* C12 witness: a snapshot above zero was saved under a global index that is
\* not below it, and reads back as saved
C12_Witness ==
    /\ call.op = "save_user_rewards"
    /\ call.arg[2].user_index > 0
    /\ read_global_index(storage) >= call.arg[2].user_index
    /\ read_user_rewards(storage, call.arg[1]) = call.arg[2]
    /\ ~SnapshotAhead(storage)

\* C13: store_borrower_info(a, _) and remove_borrower_info(a) leave the Config,
\* the global index, every UserRewards record and the BorrowerInfo of every
\* other address as they were; save_user_rewards, save_global_index and
\* store_config leave every BorrowerInfo entry and every read_borrowers page as
\* they were; a read_borrowers page lists only addresses with a BorrowerInfo
\* entry, never one written through save_user_rewards alone.
C13_NamespaceIsolation ==
    [][/\ call'.op \in {"store_borrower_info", "remove_borrower_info"}
          => /\ read_config(storage') = read_config(storage)
             /\ read_global_index(storage') = read_global_index(storage)
             /\ StoredRewards(storage') = StoredRewards(storage)
             /\ \A x \in ReadAddrs :
                    read_user_rewards(storage', x) = read_user_rewards(storage, x)
             /\ \A x \in ReadAddrs \ {call'.arg[1]} :
                    read_borrower_info(storage', x) = read_borrower_info(storage, x)
             /\ StoredBorrowers(storage') \ {call'.arg[1]}
                    = StoredBorrowers(storage) \ {call'.arg[1]}
       /\ call'.op \in {"save_user_rewards", "save_global_index", "store_config"}
          => /\ StoredBorrowers(storage') = StoredBorrowers(storage)
             /\ \A x \in ReadAddrs :
                    read_borrower_info(storage', x) = read_borrower_info(storage, x)
             /\ \A sa \in SpecStarts, l \in Limits :
                    read_borrowers(storage', sa, l) = read_borrowers(storage, sa, l)
       /\ (call'.op = "read_borrowers" /\ IsOk(call'.res))
          => \A i \in 1..Len(call'.res[2]) :
                 PageKeys(call'.res[2])[i] \in DOMAIN last'.borrower
      ]_vars

\* C13 witness: UserRewards were saved for an address without a BorrowerInfo
\* entry while another borrower has one; the full page lists the other only
C13_Witness ==
    /\ call.op = "save_user_rewards"
    /\ call.arg[1] = AddrOf(0)
    /\ Stored = {AddrOf(1)}
    /\ IsSome(last.config)
    /\ IsSome(last.global)
    /\ IsOk(read_borrowers(storage, None, None))
    /\ PageKeys(read_borrowers(storage, None, None)[2]) = <<AddrOf(1)>>

\* C14: every read_borrowers result that succeeds is strictly ascending by raw
\* address bytes, lists only addresses that have a stored BorrowerInfo entry,
\* gives for each the balance and spendable read_borrower_info returns in the
\* same state, and with start_after absent starts at the smallest stored key.
C14_AscendingStoredPage ==
    (call.op = "read_borrowers" /\ IsOk(call.res))
    => LET page == call.res[2]
           keys == PageKeys(page)
       IN  /\ \A i, j \in 1..Len(keys) : i < j => LexLess(keys[i], keys[j])
           /\ \A i \in 1..Len(keys) :
                  /\ keys[i] \in Stored
                  /\ keys[i] \in StoredBorrowers(storage)
                  /\ page[i].borrower = addr_humanize(keys[i])[2]
                  /\ page[i].balance = read_borrower_info(storage, keys[i]).balance
                  /\ page[i].spendable = read_borrower_info(storage, keys[i]).spendable
           /\ (call.arg[1] = None /\ Len(keys) > 0)
                  => \A k \in Stored : LexLeq(keys[1], k)
           /\ (call.arg[1] = None /\ Len(keys) = 0)
                  => (Stored = {} \/ call.arg[2] = Some(0))

\* C14 witness: the full page over two borrowers stored with different
\* records, of keys of different lengths, the shorter key first
C14_Witness ==
    /\ call.op = "read_borrowers"
    /\ call.arg[1] = None
    /\ IsOk(call.res)
    /\ PageKeys(call.res[2]) = << <<0>>, <<0, 1>> >>
    /\ call.res[2][1].balance = 1
    /\ call.res[2][2].balance = 12

\* the addresses a traversal has collected: those of the pages before and of
\* the page just returned
Collected == call.arg[3] \o PageKeys(call.res[2])

\* a page of a traversal with an effective limit of at least 1 over stored
\* addresses of one fixed length (not zero)
TraversalStep ==
    /\ call.op = "traverse"
    /\ EffectiveLimit(call.arg[2]) >= 1
    /\ \A k \in Stored : Len(k) > 0
    /\ \A k1, k2 \in Stored : Len(k1) = Len(k2)

\* the traversal is complete: the page is shorter than the limit and the
\* collected addresses are all the stored ones, each once, ascending
TraversalComplete ==
    /\ TraversalStep
    /\ IsOk(call.res)
    /\ Len(call.res[2]) < EffectiveLimit(call.arg[2])
    /\ IsFirstOf(Collected, Stored, Cardinality(Stored))

\* C15: with stored addresses of one fixed length, no write in between and an
\* effective limit >= 1, calling read_borrowers from None and then with the last
\* address of the page before: every page succeeds and the addresses collected
\* so far are the first stored ones in ascending order, each once; and the
\* traversal eventually gets a page shorter than the limit, at which point every
\* stored borrower has been returned exactly once.
C15_FullTraversal ==
    /\ [](TraversalStep
          => /\ IsOk(call.res)
             /\ IsFirstOf(Collected, Stored, Len(Collected))
             /\ (Len(call.res[2]) < EffectiveLimit(call.arg[2])
                    => Len(Collected) = Cardinality(Stored)))
    /\ (TraversalStep ~> TraversalComplete)

\* C15 witness: three borrowers paged through by two: the second page holds
\* the third borrower alone and ends the traversal
C15_Witness ==
    /\ TraversalComplete
    /\ call.arg[2] = Some(2)
    /\ Cardinality(Stored) = 3
    /\ Len(call.arg[3]) = 2
    /\ Len(call.res[2]) = 1
    /\ IsSome(call.arg[1])

\* the keys of the borrower bucket from the range start of a cursor on
RangeKeys(s, start_after) ==
    {a \in CorruptAddrs :
        /\ BucketKey(PREFIX_BORROWER, a) \in DOMAIN s
        /\ start_after = None \/ LexLeq(start_after[1] \o <<1>>, a)}

\* the keys that fall within the page: the first `limit` of the range
InPage(s, start_after, limit) ==
    {a \in RangeKeys(s, start_after) :
        Cardinality({b \in RangeKeys(s, start_after) : LexLess(b, a)}) < CappedLimit(limit)}

\* the entry's bytes are no BorrowerInfo
BadRecord(s, a) == s[BucketKey(PREFIX_BORROWER, a)] \in NoBorrowerInfo

\* the entry's key has no displayable address
BadKey(a) == Len(a) = 0

\* the entries of a page that fail to decode or to convert
BadInPage(s, start_after, limit) ==
    {a \in InPage(s, start_after, limit) : BadRecord(s, a) \/ BadKey(a)}

\* C16: read_borrowers leaves the storage unchanged; when an entry within the
\* page (the first `limit` entries from the range start) fails to decode or its
\* key fails to convert to a displayable address, the call returns the error of
\* the first such entry and no list; otherwise it returns every entry of the
\* page, none skipped.
C16_AllOrNothing ==
    [][call'.op = "read_borrowers"
       => LET sa   == call'.arg[1]
              l    == call'.arg[2]
              page == InPage(storage, sa, l)
              bad  == BadInPage(storage, sa, l)
          IN  /\ storage' = storage
              /\ bad # {} =>
                     LET first == CHOOSE a \in bad : \A b \in bad : LexLeq(a, b)
                     IN  call'.res = IF BadRecord(storage, first)
                                     THEN Err("ParseErr") ELSE Err("AddressFormat")
              /\ bad = {} =>
                     /\ IsOk(call'.res)
                     /\ Len(call'.res[2]) = Cardinality(page)
                     /\ \A a \in page : \E i \in 1..Len(call'.res[2]) :
                            PageKeys(call'.res[2])[i] = a
      ]_vars

\* C16 witness: a page of two entries, the first well-formed and the second
\* not decoding: the call fails and returns no list
C16_Witness ==
    /\ call.op = "read_borrowers"
    /\ call.arg = <<None, Some(2)>>
    /\ InPage(storage, None, Some(2)) = {AddrOf(0), AddrOf(1)}
    /\ ~BadRecord(storage, AddrOf(0))
    /\ BadRecord(storage, AddrOf(1))
    /\ call.res = Err("ParseErr")

====
